---- MODULE Spec2Model ----
(***************************************************************************)
(* The text-transform request/response pipeline of the AI Copilot Editor.  *)
(*                                                                         *)
(* The repository holds three server programs:                             *)
(*   "minimal"    src/backend/server.js         POST /ai/:action, calls    *)
(*                                              the generative provider    *)
(*   "production" src/unnamed/part_001:211-460  validated /api routes,     *)
(*                                              probes, graceful shutdown  *)
(*   "dummy"      src/unnamed/part_002          unvalidated /api routes    *)
(* One behaviour of the model is one run of one of them.                   *)
(*                                                                         *)
(* Strings are sequences of chunks: a literal of the source is one chunk,  *)
(* text typed by a user is one chunk per character.  Concatenation is \o.  *)
(***************************************************************************)
EXTENDS Integers, Sequences, FiniteSets

\* ----------------------------------------------------------------- bounds
MaxReqs == 2          \* requests a run admits
MaxRejections == 1    \* unhandled promise rejections a run observes

\* ------------------------------------------------------ program constants
REQUEST_TIMEOUT == 30000   \* ms, process.env.REQUEST_TIMEOUT || 30000
GRACE_MS == 30000          \* ms, the force-shutdown setTimeout
\* Time advances in halves of the grace window.
TickMs == GRACE_MS \div 2

\* --------------------------------------------------------- JavaScript values
\* One record shape for every value: t is the tag, n the number or the
\* boolean (0/1), s the string.
Undefined == [t |-> "undefined", n |-> 0, s |-> <<>>]
Null      == [t |-> "null",      n |-> 0, s |-> <<>>]
Num(k)    == [t |-> "number",    n |-> k, s |-> <<>>]
Bool(b)   == [t |-> "boolean",   n |-> IF b THEN 1 ELSE 0, s |-> <<>>]
Arr       == [t |-> "array",     n |-> 0, s |-> <<>>]
Obj       == [t |-> "object",    n |-> 0, s |-> <<>>]
Str(s)    == [t |-> "string",    n |-> 0, s |-> s]

\* typeof v
TypeOf(v) ==
  CASE v.t = "undefined" -> "undefined"
    [] v.t = "null"      -> "object"
    [] v.t = "array"     -> "object"
    [] v.t = "object"    -> "object"
    [] OTHER             -> v.t

\* !v
Falsy(v) ==
  \/ v.t \in {"undefined", "null"}
  \/ v.t = "number"  /\ v.n = 0
  \/ v.t = "boolean" /\ v.n = 0
  \/ v.t = "string"  /\ Len(v.s) = 0

\* String(v), as string concatenation and template literals apply it
ToString(v) ==
  CASE v.t = "undefined" -> <<"undefined">>
    [] v.t = "null"      -> <<"null">>
    [] v.t = "number"    -> IF v.n = 0 THEN <<"0">> ELSE <<"1">>
    [] v.t = "boolean"   -> IF v.n = 0 THEN <<"false">> ELSE <<"true">>
    [] v.t = "array"     -> <<>>
    [] v.t = "object"    -> <<"[object Object]">>
    [] OTHER             -> v.s

WhiteSpace == {" ", "\t", "\n"}

RECURSIVE TrimStart(_)
TrimStart(s) ==
  IF Len(s) > 0 /\ Head(s) \in WhiteSpace THEN TrimStart(Tail(s)) ELSE s

RECURSIVE TrimEnd(_)
TrimEnd(s) ==
  IF Len(s) > 0 /\ s[Len(s)] \in WhiteSpace
  THEN TrimEnd(SubSeq(s, 1, Len(s) - 1)) ELSE s

\* String.prototype.trim
Trim(s) == TrimEnd(TrimStart(s))

\* ------------------------------------------------------------------ requests
\* The values a client puts in the `text` field of a JSON body.
Texts ==
  { Null, Num(0), Num(1), Bool(FALSE), Bool(TRUE), Arr, Obj,
    Str(<<>>), Str(<<" ">>), Str(<<"a">>), Str(<<" ", "a">>) }

\* A request body: has = the JSON object carries a `text` member; parse = what
\* the JSON body parser makes of the bytes sent.
NoText == [has |-> FALSE, text |-> Undefined, parse |-> "ok"]
Bodies == {NoText} \cup { [has |-> TRUE, text |-> v, parse |-> "ok"] : v \in Texts }

\* Bodies the parser rejects: invalid JSON, and more bytes than the limit.
Malformed == [has |-> FALSE, text |-> Undefined, parse |-> "malformed"]
TooLarge  == [has |-> FALSE, text |-> Undefined, parse |-> "toolarge"]
BadBodies == {Malformed, TooLarge}

\* const { text } = req.body
BodyText(body) == IF body.has THEN body.text ELSE Undefined

Post(path) ==
  { [method |-> "POST", path |-> path, body |-> b] : b \in Bodies \cup BadBodies }
Get(path)  == { [method |-> "GET",  path |-> path, body |-> NoText] }

\* Requests that match no route of any server: an unknown path, with and
\* without a body the parser accepts, a known path under another method, and
\* a CORS preflight.
Unrouted ==
  Get(<<"missing">>) \cup Get(<<"api", "make-shorter">>)
    \cup { [method |-> "POST", path |-> <<"missing">>, body |-> b] :
             b \in {NoText, Malformed} }
    \cup { [method |-> "OPTIONS", path |-> <<"missing">>, body |-> NoText] }

\* What the clients of each server send: every body on each of its transform
\* routes, the probes, and a path no server registers.
Inputs(v) ==
  Get(<<"health">>) \cup Get(<<"ready">>) \cup Unrouted \cup
  CASE v = "minimal" ->
         Post(<<"ai", "shorten">>) \cup Post(<<"ai", "lengthen">>)
           \cup Post(<<"ai", "summarize">>)
    [] OTHER ->
         Post(<<"api", "make-shorter">>) \cup Post(<<"api", "make-longer">>)

\* ----------------------------------------------------------------- responses
NoResp == [status |-> 0, fields |-> {}, error |-> <<>>, message |-> <<>>,
           result |-> <<>>]

\* res.status(status).json({error, message, timestamp})
ErrorEnvelope(status, error, message) ==
  [status |-> status, fields |-> {"error", "message", "timestamp"},
   error |-> error, message |-> message, result |-> <<>>]

VARIABLES
  variant,      \* which server program runs
  NODE_ENV,     \* process.env.NODE_ENV || 'development'
  reqs,         \* request slot -> the exchange on it
  phase,        \* "running", "closing" (server.close called), "exited"
  exitCode,     \* process exit code, -1 while the process lives
  listening,    \* the server socket admits new connections
  timers,       \* ms left on each pending force-shutdown timer
  unhandled,    \* 'Unhandled rejection' records the process has logged
  cli           \* the editor client (ClientSpec)

vars == <<variant, NODE_ENV, reqs, phase, exitCode, listening, timers,
          unhandled, cli>>

Slots == 1..MaxReqs

\* A connection the server has admitted and not yet answered.
InFlight(q) == q.pc \in {"received", "awaiting"}

Idle ==
  [pc |-> "idle", method |-> "GET", path |-> <<>>, body |-> NoText,
   validated |-> FALSE,   \* validateTextInput ran
   handled |-> FALSE,     \* the route handler ran
   calls |-> 0,           \* calls made to the provider
   prompt |-> Undefined,  \* the prompt of the last call
   upstream |-> "none",   \* how the call ended: resolved, rejected, malformed
   reply |-> <<>>,        \* the text the provider returned
   err |-> <<>>,          \* err.message of the error the handler caught
   waited |-> 0,   \* ms the handler has awaited the provider so far
   stages |-> <<>>,       \* the middleware that ran, in the order it ran
   sends |-> 0,           \* responses sent (res.json, res.end)
   logs |-> 0,            \* 'Request completed' records written
   atSignal |-> FALSE, resp |-> NoResp]

\* The server right after app.listen.
ServerInit ==
  /\ reqs = [r \in Slots |-> Idle]
  /\ phase = "running"
  /\ exitCode = -1
  /\ listening = TRUE
  /\ timers = {}
  /\ unhandled = 0

\* No editor is part of a run of the server alone.
NoClient == [variant |-> "none"]

Init ==
  /\ variant \in {"minimal", "production", "dummy"}
  /\ NODE_ENV \in {"development", "production"}
  /\ ServerInit
  /\ cli = NoClient

\* ------------------------------------------------------- production server
\* The client-visible message of a 500 response.
SanitizedMessage(env, errMessage) ==
  IF env = "development" THEN errMessage ELSE <<"An error occurred">>

\* validateTextInput without its first check.
validateTextInput_NoRequiredCheck(text) ==
  IF TypeOf(text) # "string"
  THEN ErrorEnvelope(400, <<"Invalid request">>, <<"Text must be a string">>)
  ELSE IF Len(Trim(text.s)) = 0
  THEN ErrorEnvelope(400, <<"Invalid request">>, <<"Text cannot be empty">>)
  ELSE NoResp

\* validateTextInput: the 400 response it sends, or NoResp when it calls next().
validateTextInput(text) ==
  IF Falsy(text)
  THEN ErrorEnvelope(400, <<"Invalid request">>, <<"Text field is required">>)
  ELSE IF TypeOf(text) # "string"
  THEN ErrorEnvelope(400, <<"Invalid request">>, <<"Text must be a string">>)
  ELSE IF Len(Trim(text.s)) = 0
  THEN ErrorEnvelope(400, <<"Invalid request">>, <<"Text cannot be empty">>)
  ELSE NoResp

\* The route handlers of /api/make-shorter and /api/make-longer: the result is
\* a template literal; text.length throws a TypeError on undefined and null,
\* which the handler's own catch turns into the 500 envelope.
TransformLabel(path) ==
  IF path = <<"api", "make-shorter">> THEN <<"Shorter version of: ">>
  ELSE <<"Longer version of: ">>

ProdTransform(env, path, text) ==
  IF text.t \in {"undefined", "null"}
  THEN ErrorEnvelope(500, <<"Internal server error">>,
         SanitizedMessage(env,
           <<"Cannot read properties of ">> \o ToString(text)
             \o <<" (reading 'length')">>))
  ELSE [status |-> 200, fields |-> {"success", "result", "timestamp"},
        error |-> <<>>, message |-> <<>>,
        result |-> TransformLabel(path) \o ToString(text)]

\* req.path
PathString(path) ==
  IF Len(path) = 1 THEN <<"/">> \o path
  ELSE <<"/", path[1], "/", path[2]>>

\* A readiness probe that reports 503.
ProbeResp_Unready(path) ==
  [status |-> IF path = <<"ready">> THEN 503 ELSE 200,
   fields |-> {"status", "timestamp"},
   error |-> <<>>, message |-> <<>>, result |-> <<>>]

\* app.get('/health'), app.get('/ready'): static-shape JSON, status 200.
ProbeResp(path) ==
  [status |-> 200,
   fields |-> IF path = <<"health">>
              THEN {"status", "timestamp", "uptime", "environment"}
              ELSE {"status", "timestamp"},
   error |-> <<>>, message |-> <<>>, result |-> <<>>]

\* A catch-all that answers like the error-handling middleware.
NotFoundResp_AsInternalError(path) ==
  ErrorEnvelope(500, <<"Internal server error">>, <<"An error occurred">>)

\* The 404 handler.
NotFoundResp(path) ==
  ErrorEnvelope(404, <<"Not found">>,
                <<"Endpoint ">> \o PathString(path) \o <<" not found">>)

IsProbe(q) == q.method = "GET" /\ q.path \in {<<"health">>, <<"ready">>}
IsApiTransform(q) ==
  q.method = "POST" /\ q.path \in {<<"api", "make-shorter">>, <<"api", "make-longer">>}

\* The chain with the CORS check registered ahead of the body parsers.
PIPELINE_CorsFirst ==
  <<"helmet", "cors", "compression", "json", "urlencoded", "timeout", "logging">>

\* The app.use chain in registration order.
PIPELINE ==
  <<"helmet", "compression", "json", "urlencoded", "cors", "timeout", "logging">>

\* What a middleware does with a request: bodyParser.json passes an error to
\* next(err) for a body it rejects, cors answers every OPTIONS request itself
\* (preflightContinue is off), every other stage calls next().
StageEnd(stage, q) ==
  IF stage = "json" /\ q.body.parse # "ok" THEN "error"
  ELSE IF stage = "cors" /\ q.method = "OPTIONS" THEN "answered"
  ELSE "next"

\* The positions of `chain` at which q leaves the chain.
Stops(chain, q) == { i \in 1..Len(chain) : StageEnd(chain[i], q) # "next" }

\* The last stage of `chain` that runs for q.
LastStage(chain, q) ==
  IF Stops(chain, q) = {} THEN Len(chain)
  ELSE CHOOSE i \in Stops(chain, q) : \A j \in Stops(chain, q) : i <= j

\* The stages of `chain` that run for q, and how the chain ends.
RunChain(chain, q) ==
  [ran |-> SubSeq(chain, 1, LastStage(chain, q)),
   end |-> IF Stops(chain, q) = {} THEN "next"
           ELSE StageEnd(chain[LastStage(chain, q)], q)]

\* The error body-parser raises: err.status and err.message.
ParseError(body) ==
  IF body.parse = "toolarge"
  THEN [status |-> 413, message |-> <<"request entity too large">>]
  ELSE [status |-> 400, message |-> <<"Unexpected end of JSON input">>]

\* The error-handling middleware with the status fixed at 500.
ErrorMiddleware_Always500(env, err) ==
  ErrorEnvelope(500, <<"Internal server error">>,
                SanitizedMessage(env, err.message))

\* The error-handling middleware: res.status(err.status || 500).json(...)
ErrorMiddleware(env, err) ==
  ErrorEnvelope(IF err.status # 0 THEN err.status ELSE 500,
                <<"Internal server error">>,
                SanitizedMessage(env, err.message))

\* The answer of cors to an OPTIONS request: optionsSuccessStatus, no body.
PreflightResp(status) == [NoResp EXCEPT !.status = status]

\* The routes with a validator that calls next() after sending its 400, so
\* that the handler answers as well.
ProdRoutes_RejectAndNext(env, q) ==
  IF IsProbe(q)
  THEN [q EXCEPT !.pc = "done", !.sends = @ + 1, !.resp = ProbeResp(q.path)]
  ELSE IF IsApiTransform(q)
  THEN [q EXCEPT !.pc = "done", !.validated = TRUE, !.handled = TRUE,
                 !.sends = IF validateTextInput(BodyText(q.body)) # NoResp
                           THEN @ + 2 ELSE @ + 1,
                 !.resp = IF validateTextInput(BodyText(q.body)) # NoResp
                          THEN validateTextInput(BodyText(q.body))
                          ELSE ProdTransform(env, q.path, BodyText(q.body))]
  ELSE [q EXCEPT !.pc = "done", !.sends = @ + 1, !.resp = NotFoundResp(q.path)]

\* The routes with a validator that hands the handler the trimmed text.
ProdRoutes_Trimmed(env, q) ==
  IF IsProbe(q) THEN [q EXCEPT !.pc = "done", !.sends = @ + 1, !.resp = ProbeResp(q.path)]
  ELSE IF IsApiTransform(q)
  THEN LET rejected == validateTextInput(BodyText(q.body)) IN
       IF rejected # NoResp
       THEN [q EXCEPT !.pc = "done", !.validated = TRUE, !.sends = @ + 1, !.resp = rejected]
       ELSE [q EXCEPT !.pc = "done", !.validated = TRUE, !.handled = TRUE,
                      !.sends = @ + 1, !.resp = ProdTransform(env, q.path,
                                             Str(Trim(BodyText(q.body).s)))]
  ELSE [q EXCEPT !.pc = "done", !.sends = @ + 1, !.resp = NotFoundResp(q.path)]

\* The routes of the production server, in registration order, for a request
\* that passed the app.use chain.
ProdRoutes(env, q) ==
  IF IsProbe(q) THEN [q EXCEPT !.pc = "done", !.sends = @ + 1, !.resp = ProbeResp(q.path)]
  ELSE IF IsApiTransform(q)
  THEN LET rejected == validateTextInput(BodyText(q.body)) IN
       IF rejected # NoResp
       THEN [q EXCEPT !.pc = "done", !.validated = TRUE, !.sends = @ + 1, !.resp = rejected]
       ELSE [q EXCEPT !.pc = "done", !.validated = TRUE, !.handled = TRUE,
                      !.sends = @ + 1, !.resp = ProdTransform(env, q.path, BodyText(q.body))]
  ELSE [q EXCEPT !.pc = "done", !.sends = @ + 1, !.resp = NotFoundResp(q.path)]

\* The logging middleware is part of the chain: a request that passes the
\* whole chain has a 'finish' listener that writes one record.
LoggingRegistered == \E i \in 1..Len(PIPELINE) : PIPELINE[i] = "logging"

\* One request through the production server.
ProdHandle(env, q) ==
  CASE RunChain(PIPELINE, q).end = "error" ->
         [q EXCEPT !.pc = "done",
                   !.stages = RunChain(PIPELINE, q).ran \o <<"errorHandler">>,
                   !.err = ParseError(q.body).message,
                   !.sends = @ + 1, !.resp = ErrorMiddleware(env, ParseError(q.body))]
    [] RunChain(PIPELINE, q).end = "answered" ->
         [q EXCEPT !.pc = "done", !.stages = RunChain(PIPELINE, q).ran,
                   !.sends = @ + 1, !.resp = PreflightResp(200)]
    [] OTHER ->
         [ProdRoutes(env, q) EXCEPT
            !.stages = RunChain(PIPELINE, q).ran,
            !.logs = IF LoggingRegistered THEN @ + 1 ELSE @]

\* Express's built-in error handler: the status of the error, an HTML page.
DefaultError(err) == [NoResp EXCEPT !.status = err.status]

\* ------------------------------------------------------------ dummy server
\* Express's built-in answer to an unmatched route: an HTML page, status 404.
DefaultNotFound == [NoResp EXCEPT !.status = 404]

DummyHandle(q) ==
  IF q.body.parse # "ok"
  THEN [q EXCEPT !.pc = "done", !.sends = @ + 1, !.resp = DefaultError(ParseError(q.body))]
  ELSE IF q.method = "OPTIONS"
  THEN [q EXCEPT !.pc = "done", !.sends = @ + 1, !.resp = PreflightResp(204)]
  ELSE IF q.method = "GET" /\ q.path = <<"health">>
  THEN [q EXCEPT !.pc = "done", !.sends = @ + 1, !.resp = [NoResp EXCEPT !.status = 200]]
  ELSE IF IsApiTransform(q)
  THEN [q EXCEPT !.pc = "done", !.handled = TRUE,
                 !.sends = @ + 1, !.resp = [status |-> 200, fields |-> {"result"},
                           error |-> <<>>, message |-> <<>>,
                           result |-> TransformLabel(q.path)
                                        \o ToString(BodyText(q.body))]]
  ELSE [q EXCEPT !.pc = "done", !.sends = @ + 1, !.resp = DefaultNotFound]

\* ---------------------------------------------------------- minimal server
SHORTEN_SUFFIX == <<" Make it shorter and concise.">>
LENGTHEN_SUFFIX == <<" Make it longer and elaborative.">>

\* buildPrompt that treats every unknown action as "shorten".
buildPrompt_DefaultShorten(action, text) ==
  IF action = "lengthen" THEN Str(ToString(text) \o LENGTHEN_SUFFIX)
  ELSE Str(ToString(text) \o SHORTEN_SUFFIX)

\* buildPrompt with the two suffixes exchanged.
buildPrompt_Swapped(action, text) ==
  IF action = "shorten" THEN Str(ToString(text) \o LENGTHEN_SUFFIX)
  ELSE IF action = "lengthen" THEN Str(ToString(text) \o SHORTEN_SUFFIX)
  ELSE text

\* let prompt = text; if (action === "shorten") prompt += ...; else if ...
\* += on a non-string converts it; any other action leaves the value as it is.
buildPrompt(action, text) ==
  IF action = "shorten" THEN Str(ToString(text) \o SHORTEN_SUFFIX)
  ELSE IF action = "lengthen" THEN Str(ToString(text) \o LENGTHEN_SUFFIX)
  ELSE text

IsAiRoute(q) == q.method = "POST" /\ Len(q.path) = 2 /\ q.path[1] = "ai"

\* Up to the await of modelFlash.generateContent(prompt): the provider is
\* called once with the prompt and the handler is suspended.
MinimalHandle(q) ==
  IF q.method = "OPTIONS"
  THEN [q EXCEPT !.pc = "done", !.sends = @ + 1, !.resp = PreflightResp(204)]
  ELSE IF q.body.parse # "ok"
  THEN [q EXCEPT !.pc = "done", !.sends = @ + 1, !.resp = DefaultError(ParseError(q.body))]
  ELSE IF IsAiRoute(q)
  THEN [q EXCEPT !.pc = "awaiting", !.handled = TRUE, !.calls = @ + 1,
                 !.prompt = buildPrompt(q.path[2], BodyText(q.body))]
  ELSE [q EXCEPT !.pc = "done", !.sends = @ + 1, !.resp = DefaultNotFound]

\* res.json({ result: output })
MinimalSuccess(output) ==
  [status |-> 200, fields |-> {"result"}, error |-> <<>>, message |-> <<>>,
   result |-> output]

\* res.status(500).json({ error: `Failed to process AI request: ${err.message}` })
MinimalFailure(errMessage) ==
  [status |-> 500, fields |-> {"error"},
   error |-> <<"Failed to process AI request: ">> \o errMessage,
   message |-> <<>>, result |-> <<>>]

\* What the provider may answer, and the messages its failures carry.
ProviderTexts == {<<"R1">>, <<"R2">>}
ProviderErrors == {<<"fetch failed">>, <<"[429 Too Many Requests]">>}
\* result.response is undefined when the reply lacks the text field.
MalformedReplyError == <<"Cannot read properties of undefined (reading 'text')">>

\* ------------------------------------------------------------------ actions
Alive == phase # "exited"

\* A client connects and sends a request.
Arrive(r) ==
  /\ Alive /\ listening
  /\ reqs[r].pc = "idle"
  /\ r > 1 => reqs[r - 1].pc # "idle"
  /\ \E i \in Inputs(variant) :
       reqs' = [reqs EXCEPT ![r] = [Idle EXCEPT !.pc = "received",
                  !.method = i.method, !.path = i.path, !.body = i.body]]
  /\ UNCHANGED <<cli, unhandled, variant, NODE_ENV, phase, exitCode, listening, timers>>

\* Request handling that reads the body from one buffer shared by all
\* requests, which holds the body of the first connection.
Handle_SharedBody(r) ==
  /\ Alive
  /\ reqs[r].pc = "received"
  /\ reqs' = [reqs EXCEPT ![r] =
       [(CASE variant = "production" ->
               ProdHandle(NODE_ENV, [reqs[r] EXCEPT !.body = reqs[1].body])
           [] variant = "dummy" ->
               DummyHandle([reqs[r] EXCEPT !.body = reqs[1].body])
           [] OTHER ->
               MinimalHandle([reqs[r] EXCEPT !.body = reqs[1].body]))
        EXCEPT !.body = reqs[r].body]]
  /\ UNCHANGED <<cli, unhandled, variant, NODE_ENV, phase, exitCode, listening, timers>>

\* The server runs the request through its routes.
Handle(r) ==
  /\ Alive
  /\ reqs[r].pc = "received"
  /\ reqs' = [reqs EXCEPT ![r] =
       CASE variant = "production" -> ProdHandle(NODE_ENV, reqs[r])
         [] variant = "dummy"      -> DummyHandle(reqs[r])
         [] OTHER                  -> MinimalHandle(reqs[r])]
  /\ UNCHANGED <<cli, unhandled, variant, NODE_ENV, phase, exitCode, listening, timers>>

\* generateContent resolves and result.response.text() yields the text.
ProviderResolve(r) ==
  /\ Alive
  /\ reqs[r].pc = "awaiting"
  /\ \E output \in ProviderTexts :
       reqs' = [reqs EXCEPT ![r].pc = "done", ![r].waited = 0,
                               ![r].upstream = "resolved", ![r].reply = output,
                               ![r].sends = @ + 1, ![r].resp = MinimalSuccess(output)]
  /\ UNCHANGED <<cli, unhandled, variant, NODE_ENV, phase, exitCode, listening, timers>>

\* generateContent rejects: network failure or provider error status.
ProviderReject(r) ==
  /\ Alive
  /\ reqs[r].pc = "awaiting"
  /\ \E e \in ProviderErrors :
       reqs' = [reqs EXCEPT ![r].pc = "done", ![r].waited = 0,
                               ![r].upstream = "rejected", ![r].err = e,
                               ![r].sends = @ + 1, ![r].resp = MinimalFailure(e)]
  /\ UNCHANGED <<cli, unhandled, variant, NODE_ENV, phase, exitCode, listening, timers>>

\* generateContent resolves with a reply that has no response text.
ProviderMalformed(r) ==
  /\ Alive
  /\ reqs[r].pc = "awaiting"
  /\ reqs' = [reqs EXCEPT ![r].pc = "done", ![r].waited = 0,
                          ![r].upstream = "malformed",
                          ![r].err = MalformedReplyError,
                          ![r].sends = @ + 1, ![r].resp = MinimalFailure(MalformedReplyError)]
  /\ UNCHANGED <<cli, unhandled, variant, NODE_ENV, phase, exitCode, listening, timers>>

\* The connections a process exit cuts off get no response.
Abort(q) ==
  IF InFlight(q) THEN [q EXCEPT !.pc = "aborted", !.waited = 0] ELSE q

\* process.exit(code)
Exit(code) ==
  /\ phase' = "exited"
  /\ exitCode' = code
  /\ listening' = FALSE
  /\ timers' = {}
  /\ reqs' = [r \in Slots |-> Abort(reqs[r])]

\* server.close(callback): the listening socket is closed at once; the
\* callback waits for the 'close' event, emitted when no connection is left.
ServerClose ==
  /\ listening' = FALSE
  /\ phase' = "closing"

\* Exit status of a process ended by a signal it does not handle: 128 + signo.
SignalExitCode(sig) == IF sig = "SIGINT" THEN 130 ELSE 143

\* gracefulShutdown that cancels the pending force-shutdown timer and arms
\* a new one.
Signal_RestartsTimer(sig) ==
  /\ Alive
  /\ IF variant = "production"
     THEN /\ ServerClose
          /\ timers' = {GRACE_MS}
          /\ reqs' = [r \in Slots |->
                        IF InFlight(reqs[r]) /\ phase = "running"
                        THEN [reqs[r] EXCEPT !.atSignal = TRUE] ELSE reqs[r]]
          /\ UNCHANGED exitCode
     ELSE Exit(SignalExitCode(sig))
  /\ UNCHANGED <<cli, unhandled, variant, NODE_ENV>>

\* SIGTERM or SIGINT. The production server runs gracefulShutdown; the other
\* two register no handler and the signal ends the process.
Signal(sig) ==
  /\ Alive
  /\ IF variant = "production"
     THEN /\ ServerClose
          /\ timers' = timers \cup {GRACE_MS}
          /\ reqs' = [r \in Slots |->
                        IF InFlight(reqs[r]) /\ phase = "running"
                        THEN [reqs[r] EXCEPT !.atSignal = TRUE] ELSE reqs[r]]
          /\ UNCHANGED exitCode
     ELSE Exit(SignalExitCode(sig))
  /\ UNCHANGED <<cli, unhandled, variant, NODE_ENV>>

\* A close callback that does not wait for the open connections.
Drained_Always == TRUE

\* No connection is left open.
Drained == \A r \in Slots : ~InFlight(reqs[r])

\* The 'close' event: the callback of server.close logs and exits with 0.
ServerClosed ==
  /\ phase = "closing"
  /\ Drained
  /\ Exit(0)
  /\ UNCHANGED <<cli, unhandled, variant, NODE_ENV>>

\* A force-shutdown timer that reports success.
ForceExit_ExitsZero ==
  /\ Alive
  /\ \E d \in timers : d = 0
  /\ Exit(0)
  /\ UNCHANGED <<cli, unhandled, variant, NODE_ENV>>

\* A force-shutdown timer fires.
ForceExit ==
  /\ Alive
  /\ \E d \in timers : d = 0
  /\ Exit(1)
  /\ UNCHANGED <<cli, unhandled, variant, NODE_ENV>>

\* An 'uncaughtException' listener that logs and returns.
UncaughtException_LogOnly ==
  /\ Alive
  /\ unhandled < MaxRejections
  /\ unhandled' = unhandled + 1
  /\ UNCHANGED <<reqs, phase, exitCode, listening, timers>>
  /\ UNCHANGED <<cli, variant, NODE_ENV>>

\* An exception no handler catches. The production server's
\* 'uncaughtException' listener logs and calls process.exit(1); without a
\* listener the runtime prints the error and exits with 1 as well.
UncaughtException ==
  /\ Alive
  /\ Exit(1)
  /\ UNCHANGED <<cli, unhandled, variant, NODE_ENV>>

\* A promise rejection nothing handles. The production server's
\* 'unhandledRejection' listener logs it and returns; without a listener the
\* runtime raises it as an uncaught exception.
UnhandledRejection ==
  /\ Alive
  /\ IF variant = "production"
     THEN /\ unhandled < MaxRejections
          /\ unhandled' = unhandled + 1
          /\ UNCHANGED <<reqs, phase, exitCode, listening, timers>>
     ELSE Exit(1) /\ UNCHANGED unhandled
  /\ UNCHANGED <<cli, variant, NODE_ENV>>

\* Time passes while something waits on it; a due timer fires first. The time
\* a handler has waited for the provider is counted up to REQUEST_TIMEOUT.
Waiting(q) == q.pc = "awaiting" /\ q.waited < REQUEST_TIMEOUT

Tick ==
  /\ Alive
  /\ timers # {} \/ \E r \in Slots : Waiting(reqs[r])
  /\ \A d \in timers : d > 0
  /\ timers' = { d - TickMs : d \in timers }
  /\ reqs' = [r \in Slots |->
                IF Waiting(reqs[r])
                THEN [reqs[r] EXCEPT !.waited = @ + TickMs] ELSE reqs[r]]
  /\ UNCHANGED <<cli, unhandled, variant, NODE_ENV, phase, exitCode, listening>>

Next ==
  \/ \E r \in Slots : Arrive(r)
  \/ \E r \in Slots : Handle(r)
  \/ \E r \in Slots : ProviderResolve(r)
  \/ \E r \in Slots : ProviderReject(r)
  \/ \E r \in Slots : ProviderMalformed(r)
  \/ \E sig \in {"SIGINT", "SIGTERM"} : Signal(sig)
  \/ ServerClosed
  \/ ForceExit
  \/ UncaughtException
  \/ UnhandledRejection
  \/ Tick

Spec == Init /\ [][Next]_vars

\* The event loop runs every handler and timer that is ready. Nothing obliges
\* the provider to answer, a client to connect or a signal to arrive.
Fairness ==
  /\ \A r \in Slots : WF_vars(Handle(r))
  /\ WF_vars(ServerClosed)
  /\ WF_vars(ForceExit)
  /\ WF_vars(Tick)

FairSpec == Spec /\ Fairness

\* The event loop alone: the 'close' event and due timers are delivered and
\* time passes, while nothing obliges a received request to finish.
ShutdownFairness ==
  /\ WF_vars(ServerClosed)
  /\ WF_vars(ForceExit)
  /\ WF_vars(Tick)

ShutdownSpec == Spec /\ ShutdownFairness

\* =================================================================== clients
\* The three editor front ends: "bootstrap" (App.js:1-304), "inline"
\* (App.js:306-353) and "fetch" (part_001:1-209). The document is one
\* paragraph, a sequence of characters; a position is an offset into it.
MaxCalls == 2
MaxDoc == 2

NOTICE_MS == 3000
ClientTickMs == NOTICE_MS

Chars == {"a"}

\* The editor's initial content.
InitialDoc == <<"a", " ">>

\* A transform request of the client and the selection it was invoked on.
IdleCall == [pc |-> "idle", action |-> "", text |-> <<>>, from |-> 0, to |-> 0]

\* A request whose reply has been dealt with.
DoneCall == [IdleCall EXCEPT !.pc = "done"]

CallSlots == 1..MaxCalls

ClientStart(v) ==
  [variant |-> v, doc |-> InitialDoc, from |-> 0, to |-> 0,
   loading |-> FALSE, error |-> Null, success |-> FALSE,
   transformedText |-> <<>>, console |-> "",
   sent |-> 0, calls |-> [k \in CallSlots |-> IdleCall], ctimers |-> {}]

ClientInit ==
  /\ variant = "production"
  /\ NODE_ENV = "production"
  /\ ServerInit
  /\ cli \in { ClientStart(v) : v \in {"bootstrap", "inline", "fetch"} }

\* editor.state.doc.textBetween(from, to)
textBetween(doc, from, to) == SubSeq(doc, from + 1, to)

\* editor.state.selection.$from.parent.textContent: the whole text of the
\* paragraph the selection starts in.
parentTextContent(c) == c.doc

\* editor.state.selection.content().toString(): the printed form of the
\* slice, "<paragraph(\"..\")>(1,1)" for a selection inside the paragraph and
\* "<>(0,0)" for an empty one.
sliceToString(c) ==
  IF c.from = c.to THEN <<"<>(0,0)">>
  ELSE <<"<paragraph(\"">> \o textBetween(c.doc, c.from, c.to) \o <<"\")>(1,1)">>

\* insertContentAt({from, to}, content): the range is replaced and the cursor
\* is put behind the inserted content.
insertContentAt(c, from, to, content) ==
  [c EXCEPT !.doc = SubSeq(c.doc, 1, from) \o content
                      \o SubSeq(c.doc, to + 1, Len(c.doc)),
            !.from = from + Len(content),
            !.to = from + Len(content)]

\* The replies a transform request can get: a 2xx JSON body with a result,
\* with an empty or no result, a 2xx body that is not JSON, an error status
\* with or without a `message` member, and a failure of the connection.
Replies ==
  { [kind |-> "ok", status |-> 200, result |-> Str(<<"R">>), message |-> Undefined],
    [kind |-> "ok", status |-> 200, result |-> Str(<<>>), message |-> Undefined],
    [kind |-> "ok", status |-> 200, result |-> Undefined, message |-> Undefined],
    [kind |-> "notjson", status |-> 200, result |-> Undefined, message |-> Undefined],
    [kind |-> "status", status |-> 400, result |-> Undefined,
     message |-> Str(<<"Text field is required">>)],
    [kind |-> "status", status |-> 500, result |-> Undefined, message |-> Undefined],
    [kind |-> "network", status |-> 0, result |-> Undefined, message |-> Undefined] }

\* err.message of the error axios throws.
AxiosErrorMessage(reply) ==
  IF reply.kind = "network" THEN <<"Network Error">>
  ELSE <<"Request failed with status code ">>
         \o (IF reply.status = 400 THEN <<"400">> ELSE <<"500">>)

\* A free request slot.
FreeCall(c, k) ==
  /\ c.calls[k].pc = "idle"
  /\ k > 1 => c.calls[k - 1].pc # "idle"

\* The client's state after it sent `text` as request k.
Send(c, k, action, text) ==
  [c EXCEPT !.sent = @ + 1,
            !.calls[k] = [pc |-> "sent", action |-> action, text |-> text,
                          from |-> c.from, to |-> c.to]]

serverVars == <<variant, NODE_ENV, reqs, phase, exitCode, listening, timers, unhandled>>

\* handleAIAction of the Bootstrap client, up to its await. Every trigger is
\* disabled while `loading` is set.
BootstrapHandleAIAction(action) ==
  /\ cli.variant = "bootstrap"
  /\ ~cli.loading
  /\ LET selectedText == parentTextContent(cli) IN
     IF Len(selectedText) = 0 \/ Len(Trim(selectedText)) = 0
     THEN cli' = [cli EXCEPT
                    !.error = Str(<<"Please select text to transform">>),
                    !.ctimers = @ \cup {[kind |-> "clearError", left |-> NOTICE_MS]}]
     ELSE \E k \in CallSlots :
            /\ FreeCall(cli, k)
            /\ cli' = Send([cli EXCEPT !.loading = TRUE, !.error = Null,
                                       !.success = FALSE],
                           k, action, selectedText)
  /\ UNCHANGED serverVars

\* The rest of handleAIAction without its finally block: setLoading(false)
\* runs at the end of the try only.
BootstrapSettle_NoFinally(k, reply) ==
  /\ cli.variant = "bootstrap"
  /\ cli.calls[k].pc = "sent"
  /\ LET done == [cli EXCEPT !.calls[k] = DoneCall] IN
     cli' =
       IF reply.kind \in {"status", "network"}
       THEN [done EXCEPT
               !.error = IF ~Falsy(reply.message) THEN reply.message
                         ELSE Str(AxiosErrorMessage(reply)),
               !.console = "error"]
       ELSE IF ~Falsy(reply.result)
       THEN [done EXCEPT
               !.loading = FALSE,
               !.transformedText = reply.result.s,
               !.success = TRUE,
               !.ctimers = @ \cup {[kind |-> "clearSuccess", left |-> NOTICE_MS]}]
       ELSE [done EXCEPT !.loading = FALSE]
  /\ UNCHANGED serverVars

\* The rest of handleAIAction of the Bootstrap client, run when the reply
\* to request k arrives: try, catch and finally.
BootstrapSettle(k, reply) ==
  /\ cli.variant = "bootstrap"
  /\ cli.calls[k].pc = "sent"
  /\ LET done == [cli EXCEPT !.calls[k] = DoneCall, !.loading = FALSE] IN
     cli' =
       IF reply.kind \in {"status", "network"}
       THEN [done EXCEPT
               !.error = IF ~Falsy(reply.message) THEN reply.message
                         ELSE Str(AxiosErrorMessage(reply)),
               !.console = "error"]
       ELSE IF ~Falsy(reply.result)
       THEN [done EXCEPT
               !.transformedText = reply.result.s,
               !.success = TRUE,
               !.ctimers = @ \cup {[kind |-> "clearSuccess", left |-> NOTICE_MS]}]
       ELSE done
  /\ UNCHANGED serverVars

\* handleAIAction of the inline client. Its bubble menu is shown for a
\* non-empty selection only. `url` is not declared: evaluating the argument
\* of axios.post throws a ReferenceError, which the catch logs.
InlineHandleAIAction(action) ==
  /\ cli.variant = "inline"
  /\ cli.from < cli.to
  /\ LET selectedText == sliceToString(cli) IN
     cli' = IF Len(selectedText) = 0 THEN cli
            ELSE [cli EXCEPT !.console = "error"]
  /\ UNCHANGED serverVars

\* handleAction with its trigger disabled while a request is outstanding.
FetchHandleAction_Serialized(action) ==
  /\ cli.variant = "fetch"
  /\ cli.from < cli.to
  /\ \A k \in CallSlots : cli.calls[k].pc # "sent"
  /\ LET selectedText == textBetween(cli.doc, cli.from, cli.to) IN
     IF Len(Trim(selectedText)) = 0
     THEN cli' = [cli EXCEPT !.console = "warn"]
     ELSE \E k \in CallSlots :
            /\ FreeCall(cli, k)
            /\ cli' = Send(cli, k, action, selectedText)
  /\ UNCHANGED serverVars

\* handleAction of the fetch client, up to its await. Its bubble menu is
\* rendered while isTextSelected.
FetchHandleAction(action) ==
  /\ cli.variant = "fetch"
  /\ cli.from < cli.to
  /\ LET selectedText == textBetween(cli.doc, cli.from, cli.to) IN
     IF Len(Trim(selectedText)) = 0
     THEN cli' = [cli EXCEPT !.console = "warn"]
     ELSE \E k \in CallSlots :
            /\ FreeCall(cli, k)
            /\ cli' = Send(cli, k, action, selectedText)
  /\ UNCHANGED serverVars

\* The rest of handleAction without the test of data.result: whatever the
\* body carries as result is inserted.
FetchSettle_NoResultCheck(k, reply) ==
  /\ cli.variant = "fetch"
  /\ cli.calls[k].pc = "sent"
  /\ LET done == [cli EXCEPT !.calls[k] = DoneCall] IN
     cli' =
       IF reply.kind \in {"status", "network", "notjson"}
       THEN [done EXCEPT !.console = "error"]
       ELSE insertContentAt([done EXCEPT !.console = "log"],
                            cli.from, cli.to, ToString(reply.result))
  /\ UNCHANGED serverVars

\* The rest of handleAction of the fetch client, run when the reply to
\* request k arrives.
FetchSettle(k, reply) ==
  /\ cli.variant = "fetch"
  /\ cli.calls[k].pc = "sent"
  /\ LET done == [cli EXCEPT !.calls[k] = DoneCall] IN
     cli' =
       IF reply.kind \in {"status", "network", "notjson"}
       THEN [done EXCEPT !.console = "error"]
       ELSE IF ~Falsy(reply.result)
       THEN insertContentAt([done EXCEPT !.console = "log"],
                            cli.from, cli.to, reply.result.s)
       ELSE [done EXCEPT !.console = "error"]
  /\ UNCHANGED serverVars

\* The user moves the selection.
Select(f, t) ==
  /\ cli.variant # "none"
  /\ f <= t /\ t <= Len(cli.doc)
  /\ <<f, t>> # <<cli.from, cli.to>>
  /\ cli' = [cli EXCEPT !.from = f, !.to = t]
  /\ UNCHANGED serverVars

\* The user types a character over the selection.
Type(ch) ==
  /\ cli.variant # "none"
  /\ Len(cli.doc) - (cli.to - cli.from) < MaxDoc
  /\ cli' = insertContentAt(cli, cli.from, cli.to, <<ch>>)
  /\ UNCHANGED serverVars

\* The user deletes the selection, or the character before the cursor.
Backspace ==
  /\ cli.variant # "none"
  /\ cli.to > 0
  /\ cli' = IF cli.from < cli.to
            THEN insertContentAt(cli, cli.from, cli.to, <<>>)
            ELSE insertContentAt(cli, cli.from - 1, cli.from, <<>>)
  /\ UNCHANGED serverVars

\* The user closes an alert of the Bootstrap client.
Dismiss(kind) ==
  /\ cli.variant = "bootstrap"
  /\ \/ kind = "error" /\ cli.error # Null /\ cli' = [cli EXCEPT !.error = Null]
     \/ kind = "success" /\ cli.success /\ cli' = [cli EXCEPT !.success = FALSE]
  /\ UNCHANGED serverVars

\* A setTimeout callback of the Bootstrap client runs.
TimerFire(t) ==
  /\ cli.variant = "bootstrap"
  /\ t \in cli.ctimers /\ t.left = 0
  /\ cli' = IF t.kind = "clearError"
            THEN [cli EXCEPT !.error = Null, !.ctimers = @ \ {t}]
            ELSE [cli EXCEPT !.success = FALSE, !.ctimers = @ \ {t}]
  /\ UNCHANGED serverVars

\* Time passes in the browser; a due callback runs first.
ClientTick ==
  /\ cli.variant = "bootstrap"
  /\ cli.ctimers # {}
  /\ \A t \in cli.ctimers : t.left > 0
  /\ cli' = [cli EXCEPT !.ctimers =
               { [t EXCEPT !.left = @ - ClientTickMs] : t \in cli.ctimers }]
  /\ UNCHANGED serverVars

ClientNext ==
  \/ \E a \in {"shorter", "longer"} : BootstrapHandleAIAction(a)
  \/ \E k \in CallSlots, reply \in Replies : BootstrapSettle(k, reply)
  \/ \E a \in {"shorter", "longer"} : InlineHandleAIAction(a)
  \/ \E a \in {"shorten", "lengthen"} : FetchHandleAction(a)
  \/ \E k \in CallSlots, reply \in Replies : FetchSettle(k, reply)
  \/ \E f \in 0..(MaxDoc + MaxCalls), t \in 0..(MaxDoc + MaxCalls) : Select(f, t)
  \/ \E ch \in Chars : Type(ch)
  \/ Backspace
  \/ \E kind \in {"error", "success"} : Dismiss(kind)
  \/ \E t \in cli.ctimers : TimerFire(t)
  \/ ClientTick

ClientSpec == ClientInit /\ [][ClientNext]_vars

\* ==================================================================== claims
\* A transform route of the server that runs.
IsTransform(q) ==
  IF variant = "minimal" THEN IsAiRoute(q) ELSE IsApiTransform(q)

\* The server has acted on the request.
Acted(q) == q.pc \in {"awaiting", "done"}

\* `text` is absent, not a string, or blank after trimming.
BlankOrMissing(body) ==
  /\ body.parse = "ok"
  /\ \/ ~body.has
     \/ body.text.t # "string"
     \/ Len(Trim(body.text.s)) = 0

\* C1: on every transform route of every server variant, a request whose
\* `text` is missing, not a string or blank after trimming is answered with
\* HTTP 400 and the provider is never called for it.
C1_InvalidTextRejectedEverywhere ==
  \A r \in Slots :
    (IsTransform(reqs[r]) /\ BlankOrMissing(reqs[r].body) /\ Acted(reqs[r]))
      => /\ reqs[r].pc = "done"
         /\ reqs[r].resp.status = 400
         /\ reqs[r].calls = 0

\* A request the production server's validateTextInput has answered or passed.
Validated(q) == variant = "production" /\ q.pc = "done" /\ q.validated

\* C2: a `text` that is present but not a string is rejected by
\* validateTextInput as WrongType (400, 'Text must be a string'), never as
\* MissingField.
C2_NonStringIsWrongType ==
  \A r \in Slots :
    (Validated(reqs[r]) /\ reqs[r].body.has /\ reqs[r].body.text.t # "string")
      => /\ reqs[r].resp.status = 400
         /\ reqs[r].resp.message = <<"Text must be a string">>

\* C3: a string `text` of zero length after trimming, the empty string
\* included, is rejected by validateTextInput as EmptyText (400, 'Text cannot
\* be empty').
C3_BlankStringIsEmptyText ==
  \A r \in Slots :
    (Validated(reqs[r]) /\ reqs[r].body.has /\ reqs[r].body.text.t = "string"
       /\ Len(Trim(reqs[r].body.text.s)) = 0)
      => /\ reqs[r].resp.status = 400
         /\ reqs[r].resp.message = <<"Text cannot be empty">>

C5_ShortenRoundTrip ==
  \A r \in Slots :
    (variant = "minimal" /\ reqs[r].method = "POST"
       /\ reqs[r].path = <<"ai", "shorten">>
       /\ reqs[r].body.has /\ reqs[r].body.text.t = "string" /\ Acted(reqs[r]))
      => /\ reqs[r].calls = 1
         /\ reqs[r].prompt =
              Str(reqs[r].body.text.s \o <<" Make it shorter and concise.">>)
         /\ reqs[r].upstream = "resolved"
              => /\ reqs[r].resp.status = 200
                 /\ "result" \in reqs[r].resp.fields
                 /\ reqs[r].resp.result = reqs[r].reply

C5_Witness ==
  \E r \in Slots :
    /\ variant = "minimal"
    /\ reqs[r].path = <<"ai", "shorten">>
    /\ reqs[r].body.text = Str(<<" ", "a">>)
    /\ reqs[r].pc = "done" /\ reqs[r].upstream = "resolved"
    /\ reqs[r].reply = <<"R2">> /\ reqs[r].resp.result = <<"R2">>

\* The upstream call of the request failed: the provider threw, answered with
\* an error status, or its reply lacks the text field.
UpstreamFailed(q) == q.pc = "done" /\ q.upstream \in {"rejected", "malformed"}

\* C6: whenever the upstream call fails the request is answered with HTTP 500
\* and an envelope whose `error` is 'Internal server error' and that carries no
\* `result`, and the process keeps running.
C6_UpstreamFailureEnvelope ==
  \A r \in Slots :
    UpstreamFailed(reqs[r])
      => /\ reqs[r].resp.status = 500
         /\ reqs[r].resp.error = <<"Internal server error">>
         /\ "result" \notin reqs[r].resp.fields
         /\ exitCode \notin {0, 1}

\* The string s includes the string t (t a literal or empty).
IncludesText(s, t) == t = <<>> \/ \E i \in DOMAIN s : <<s[i]>> = t

\* C7: in production mode two 500 responses to the same request that differ
\* only in the underlying error text have identical `error` and `message`; in
\* development mode the response text includes the underlying error text.
C7_ProductionMasksErrorText ==
  \A r1, r2 \in Slots :
    (/\ reqs[r1].pc = "done" /\ reqs[r2].pc = "done"
     /\ reqs[r1].resp.status = 500 /\ reqs[r2].resp.status = 500
     /\ reqs[r1].method = reqs[r2].method /\ reqs[r1].path = reqs[r2].path
     /\ reqs[r1].body = reqs[r2].body)
      => /\ NODE_ENV = "production"
              => /\ reqs[r1].resp.error = reqs[r2].resp.error
                 /\ reqs[r1].resp.message = reqs[r2].resp.message
         /\ NODE_ENV = "development"
              => \/ IncludesText(reqs[r1].resp.message, reqs[r1].err)
                 \/ IncludesText(reqs[r1].resp.error, reqs[r1].err)

\* The provider has not answered within the configured request timeout.
TimedOut(r) == reqs[r].pc = "awaiting" /\ reqs[r].waited >= REQUEST_TIMEOUT

\* C8: if the provider does not answer within the configured request timeout
\* the request does not hang: it is eventually answered (with a 500-class
\* timeout error). Stated as the least the claim asks: the handler does not
\* stay suspended on the provider for ever.
C8_TimedOutRequestIsAnswered ==
  \A r \in Slots : TimedOut(r) ~> (reqs[r].pc # "awaiting")

\* Every probe the production server has answered got HTTP 200.
ProbesAnswered200 ==
  \A r \in Slots :
    (IsProbe(reqs[r]) /\ reqs[r].pc = "done") => reqs[r].resp.status = 200

\* C9 as claimed: in every state in which the production process is alive, the
\* window between a termination signal and the exit included, a GET /health or
\* GET /ready is admitted and answered with HTTP 200.
C9_ProbesSucceedWhileAlive ==
  (variant = "production" /\ Alive) => (listening /\ ProbesAnswered200)

\* Answering a probe changes nothing of the process and no other exchange.
ProbeStepFrame ==
  \A r \in Slots :
    (variant = "production" /\ IsProbe(reqs[r])
       /\ reqs[r].pc = "received" /\ reqs'[r].pc = "done")
      => /\ UNCHANGED <<cli, unhandled, variant, NODE_ENV, phase, exitCode,
                      listening, timers>>
         /\ \A o \in Slots \ {r} : reqs'[o] = reqs[o]

\* C9 as amended: on the production server, until a termination signal arrives
\* the server admits connections and every GET /health or GET /ready it
\* answers gets HTTP 200, whatever number of them it serves, and answering one
\* leaves the process state unchanged; after the signal no new probe is
\* admitted, and a probe admitted before it is still answered with 200.
C9_ProbesSucceedWhileListening ==
  /\ [](variant = "production" =>
          /\ phase = "running" => listening
          /\ phase = "closing" => ~listening
          /\ ProbesAnswered200)
  /\ [][ProbeStepFrame]_vars

C9_Witness ==
  \E r \in Slots :
    /\ variant = "production" /\ phase = "closing"
    /\ reqs[r].path = <<"ready">> /\ reqs[r].atSignal
    /\ reqs[r].pc = "done" /\ reqs[r].resp.status = 200

\* C10: after a termination signal the server admits no new connection while
\* it waits, a request that was in flight at the signal and finishes gets its
\* response, and the process exits with code 0 only when no admitted request
\* is left unanswered.
C10_GracefulShutdown ==
  /\ phase = "closing" => ~listening
  /\ \A r \in Slots :
       (reqs[r].atSignal /\ reqs[r].pc = "done") => reqs[r].resp.status # 0
  /\ exitCode = 0 => \A r \in Slots : reqs[r].pc \in {"idle", "done"}

C10_Witness ==
  /\ exitCode = 0
  /\ \E r \in Slots :
       /\ reqs[r].atSignal /\ reqs[r].pc = "done"
       /\ reqs[r].resp.status = 200 /\ IsApiTransform(reqs[r])

\* C11: once gracefulShutdown has run the process always eventually exits,
\* even if a request in flight never finishes; it leaves the grace window only
\* with code 0 or 1, with 0 only when no connection is left open, and a
\* request that was in flight at the signal and is cut off means code 1.
C11_SignalledProcessExits ==
  /\ (phase = "closing") ~> (phase = "exited")
  /\ [][(phase = "closing" /\ phase' = "exited") =>
          /\ exitCode' \in {0, 1}
          /\ exitCode' = 0 => Drained]_vars
  /\ [](\A r \in Slots :
          (phase = "exited" /\ reqs[r].atSignal /\ reqs[r].pc = "aborted")
            => exitCode = 1)

C11_Witness ==
  /\ phase = "exited" /\ exitCode = 1 /\ unhandled = 0
  /\ \E r \in Slots :
       /\ reqs[r].atSignal /\ reqs[r].pc = "aborted"
       /\ reqs[r].resp = NoResp

\* A request that no app.get or app.post route of the production server takes.
Unmatched(q) == q.pc = "done" /\ ~IsProbe(q) /\ ~IsApiTransform(q)

\* The NotFound envelope for q, and neither validation nor a handler ran.
AnsweredNotFound(q) ==
  /\ q.resp.status = 404
  /\ q.resp.fields = {"error", "message", "timestamp"}
  /\ q.resp.error = <<"Not found">>
  /\ q.resp.message = <<"Endpoint ">> \o PathString(q.path) \o <<" not found">>
  /\ ~q.validated /\ ~q.handled /\ q.calls = 0

\* C12 as stated: on the production server every request that matches no
\* registered route is answered with 404 and the NotFound envelope, and no
\* handler or validation runs for it.
C12_UnmatchedIsNotFound ==
  variant = "production" =>
    \A r \in Slots : Unmatched(reqs[r]) => AnsweredNotFound(reqs[r])

\* C12, amended: the same for every unmatched request that is not an OPTIONS
\* request (cors answers those itself) and whose body the JSON parser accepts
\* (a rejected body goes to the error-handling middleware before routing).
C12_UnmatchedRoutedIsNotFound ==
  variant = "production" =>
    \A r \in Slots :
      (Unmatched(reqs[r]) /\ reqs[r].method # "OPTIONS"
         /\ reqs[r].body.parse = "ok") => AnsweredNotFound(reqs[r])

C12_Witness ==
  /\ variant = "production"
  /\ \E r \in Slots :
       /\ Unmatched(reqs[r]) /\ reqs[r].method = "GET"
       /\ reqs[r].path = <<"api", "make-shorter">>
       /\ reqs[r].resp.status = 404
  /\ \E r \in Slots :
       /\ Unmatched(reqs[r]) /\ reqs[r].method = "POST"
       /\ reqs[r].path = <<"missing">>
       /\ reqs[r].resp.status = 404

\* The error-handling middleware answered q.
ReachedErrorMiddleware(q) ==
  q.pc = "done" /\ Len(q.stages) > 0 /\ q.stages[Len(q.stages)] = "errorHandler"

\* C13: every error that reaches the error-handling middleware of the
\* production server, the body parser's included, is answered with HTTP 500
\* and the envelope {error: 'Internal server error', message, timestamp}.
C13_ErrorMiddlewareAnswers500 ==
  variant = "production" =>
    \A r \in Slots :
      ReachedErrorMiddleware(reqs[r]) =>
        /\ reqs[r].resp.status = 500
        /\ reqs[r].resp.fields = {"error", "message", "timestamp"}
        /\ reqs[r].resp.error = <<"Internal server error">>

\* C14: on the production server an uncaught exception ends the process at
\* once with a non-zero code, open connections are dropped and nothing is
\* served after the exit; an unhandled rejection changes nothing of the
\* process, which goes on listening and serving.
C14_FailFastOnException ==
  /\ [][UncaughtException =>
          /\ phase' = "exited" /\ exitCode' # 0 /\ ~listening'
          /\ \A r \in Slots : ~InFlight(reqs'[r])]_vars
  /\ [][phase # "exited"]_vars
  /\ [][(variant = "production" /\ UnhandledRejection) =>
          UNCHANGED <<phase, exitCode, listening, timers, reqs>>]_vars

C14_Witness ==
  /\ variant = "production" /\ unhandled > 0
  /\ phase = "exited" /\ exitCode = 1
  /\ \E r \in Slots : reqs[r].pc = "aborted" /\ ~reqs[r].atSignal
  /\ \E r \in Slots : reqs[r].pc = "done" /\ reqs[r].resp.status = 200

\* The user invokes a transform action in the client.
Invoked ==
  \/ \E a \in {"shorter", "longer"} : BootstrapHandleAIAction(a)
  \/ \E a \in {"shorter", "longer"} : InlineHandleAIAction(a)
  \/ \E a \in {"shorten", "lengthen"} : FetchHandleAction(a)

\* The text covered by the selection is empty or whitespace only.
BlankSelection(c) == Len(Trim(textBetween(c.doc, c.from, c.to))) = 0

\* C15: in every client variant, an action invoked on an empty or
\* whitespace-only selection issues no network request and leaves an error
\* displayed to the user.
C15_BlankSelectionRejectedLocally ==
  [][(Invoked /\ BlankSelection(cli)) =>
       (cli'.sent = cli.sent /\ cli'.error # Null)]_vars

\* The reply to request k makes the request fail in the client: an error
\* status or a lost connection, and for the fetch client a body that
\* response.json() cannot parse.
SettledFailure(k, reply) ==
  \/ BootstrapSettle(k, reply) /\ reply.kind \in {"status", "network"}
  \/ FetchSettle(k, reply) /\ reply.kind \in {"status", "network", "notjson"}

\* C16: when a transform request fails the client leaves an error message
\* displayed to the user and the document is what it was before the reply.
C16_FailureSurfacedDocumentKept ==
  [][\A k \in CallSlots, reply \in Replies :
       SettledFailure(k, reply) =>
         (cli'.error # Null /\ cli'.doc = cli.doc)]_vars

\* A request to /ai/:action of the minimal server with a string as text, on
\* which the handler has run.
PromptBuilt(q) ==
  /\ variant = "minimal" /\ IsAiRoute(q) /\ Acted(q)
  /\ q.body.has /\ q.body.text.t = "string"

\* C17: the prompt is a function of (action, text) alone: text + " Make it
\* shorter and concise." for shorten, text + " Make it longer and
\* elaborative." for lengthen, and text itself for any other action, in which
\* case the provider is still called once and the handler reports no error of
\* its own (the response is the provider's reply, or its failure).
C17_PromptByAction ==
  /\ \A r \in Slots :
       PromptBuilt(reqs[r]) =>
         /\ reqs[r].prompt =
              Str(reqs[r].body.text.s \o
                    CASE reqs[r].path[2] = "shorten" ->
                           <<" Make it shorter and concise.">>
                      [] reqs[r].path[2] = "lengthen" ->
                           <<" Make it longer and elaborative.">>
                      [] OTHER -> <<>>)
         /\ reqs[r].path[2] \notin {"shorten", "lengthen"} =>
              /\ reqs[r].calls = 1
              /\ reqs[r].upstream = "none" => reqs[r].resp = NoResp
              /\ reqs[r].upstream = "resolved" =>
                   /\ reqs[r].resp.status = 200
                   /\ reqs[r].resp.result = reqs[r].reply
  /\ \A r1, r2 \in Slots :
       (PromptBuilt(reqs[r1]) /\ PromptBuilt(reqs[r2])
          /\ reqs[r1].path = reqs[r2].path
          /\ reqs[r1].body.text = reqs[r2].body.text)
         => reqs[r1].prompt = reqs[r2].prompt

C17_Witness ==
  /\ variant = "minimal"
  /\ \E r \in Slots :
       /\ reqs[r].path = <<"ai", "summarize">>
       /\ reqs[r].body.text = Str(<<" ", "a">>)
       /\ reqs[r].prompt = Str(<<" ", "a">>)
       /\ reqs[r].pc = "done" /\ reqs[r].upstream = "resolved"
       /\ reqs[r].resp.status = 200
  /\ \E r \in Slots :
       /\ reqs[r].path = <<"ai", "lengthen">>
       /\ reqs[r].body.text = Str(<<" ", "a">>)
       /\ reqs[r].pc = "awaiting"

\* A transform request with a non-blank string as text that its handler has
\* taken up.
WellFormed(q) ==
  /\ IsTransform(q) /\ Acted(q)
  /\ q.body.parse = "ok" /\ q.body.has
  /\ q.body.text.t = "string" /\ Len(Trim(q.body.text.s)) > 0

\* The suffix the action of a transform route stands for.
ActionSuffix(path) ==
  IF path[2] \in {"shorten", "make-shorter"}
  THEN <<" Make it shorter and concise.">>
  ELSE IF path[2] \in {"lengthen", "make-longer"}
  THEN <<" Make it longer and elaborative.">>
  ELSE <<>>

\* C18: on every server the handler of a well-formed transform request makes
\* exactly one provider call, with the prompt text + the suffix of the action.
C18_OneProviderCallPerRequest ==
  \A r \in Slots :
    WellFormed(reqs[r]) =>
      /\ reqs[r].calls = 1
      /\ reqs[r].prompt = Str(reqs[r].body.text.s \o ActionSuffix(reqs[r].path))

\* A request to a transform route of the production server whose text passes
\* every check of validateTextInput, answered.
PassedValidation(q) ==
  /\ variant = "production" /\ IsApiTransform(q) /\ q.pc = "done"
  /\ q.body.parse = "ok" /\ q.body.has
  /\ q.body.text.t = "string" /\ Len(Trim(q.body.text.s)) > 0

\* C19: when validation succeeds validateTextInput sends nothing and hands
\* over to the route handler once, and the handler sees the text exactly as
\* submitted: the request is answered by the handler alone, with status 200
\* and a result that carries the untrimmed text.
C19_ValidationPassesTextThrough ==
  \A r \in Slots :
    PassedValidation(reqs[r]) =>
      /\ reqs[r].validated /\ reqs[r].handled
      /\ reqs[r].resp.status = 200
      /\ reqs[r].resp.fields = {"success", "result", "timestamp"}
      /\ reqs[r].resp.result =
           (IF reqs[r].path[2] = "make-shorter"
            THEN <<"Shorter version of: ">> ELSE <<"Longer version of: ">>)
             \o reqs[r].body.text.s

C19_Witness ==
  \E r \in Slots :
    /\ PassedValidation(reqs[r])
    /\ reqs[r].path = <<"api", "make-longer">>
    /\ reqs[r].body.text = Str(<<" ", "a">>)
    /\ reqs[r].resp.result = <<"Longer version of: ", " ", "a">>

\* The stages the claim names, in the order it gives: security headers,
\* compression, JSON parsing, CORS, timeout, access logging.
ClaimedOrder == <<"helmet", "compression", "json", "cors", "timeout", "logging">>

IsClaimedStage(stage) == \E i \in 1..Len(ClaimedOrder) : ClaimedOrder[i] = stage

\* The stages of the claim that ran for q, in the order they ran.
ClaimedStagesRun(q) == SelectSeq(q.stages, IsClaimedStage)

\* C20: on the production server the stages that run for a request run in
\* the order security headers, compression, JSON parsing, CORS, timeout,
\* access logging, none before an earlier one and none twice; a request that
\* no stage answers or rejects passes all six.
C20_PipelineOrder ==
  variant = "production" =>
    \A r \in Slots :
      reqs[r].pc = "done" =>
        /\ ClaimedStagesRun(reqs[r]) =
             SubSeq(ClaimedOrder, 1, Len(ClaimedStagesRun(reqs[r])))
        /\ (reqs[r].method # "OPTIONS" /\ reqs[r].body.parse = "ok")
             => ClaimedStagesRun(reqs[r]) = ClaimedOrder

C20_Witness ==
  /\ variant = "production"
  /\ \E r \in Slots :
       /\ reqs[r].pc = "done" /\ reqs[r].resp.status = 200
       /\ IsApiTransform(reqs[r])
       /\ ClaimedStagesRun(reqs[r]) = ClaimedOrder
  /\ \E r \in Slots :
       /\ reqs[r].pc = "done" /\ reqs[r].method = "OPTIONS"
       /\ ClaimedStagesRun(reqs[r]) = <<"helmet", "compression", "json", "cors">>

\* The reply to request k is a success that carries a non-empty result.
SettledResult(k, reply) ==
  /\ BootstrapSettle(k, reply) \/ FetchSettle(k, reply)
  /\ reply.kind = "ok" /\ ~Falsy(reply.result)

\* C21: on a successful response the client that edits the document replaces
\* the range that was selected when the action was invoked by the returned
\* text, whatever the user did to the selection or the document meanwhile.
C21_SpliceAtInvocationSelection ==
  [][\A k \in CallSlots, reply \in Replies :
       (SettledResult(k, reply) /\ cli.variant = "fetch") =>
         cli'.doc = SubSeq(cli.doc, 1, cli.calls[k].from) \o reply.result.s
                      \o SubSeq(cli.doc, cli.calls[k].to + 1, Len(cli.doc))]_vars

\* C22: the text of every request a client sends is the part of the document
\* that the selection covers when the action is invoked, nothing more.
C22_SentTextIsSelection ==
  [][\A k \in CallSlots :
       (Invoked /\ cli.calls[k].pc = "idle" /\ cli'.calls[k].pc = "sent") =>
         cli'.calls[k].text = textBetween(cli.doc, cli.from, cli.to)]_vars

\* A request is outstanding, another one can still be counted, and the text
\* the client would read is not blank.
SecondActionPossible(c) ==
  /\ \E k \in CallSlots : c.calls[k].pc = "sent"
  /\ \E k \in CallSlots : c.calls[k].pc = "idle"
  /\ IF c.variant = "fetch" THEN c.from < c.to /\ ~BlankSelection(c)
     ELSE Len(Trim(parentTextContent(c))) > 0

\* An invocation that issues a request.
SendsRequest == Invoked /\ cli'.sent = cli.sent + 1

\* C23 as stated, first part: in the Bootstrap and the fetch client a second
\* action can be issued while a request is outstanding.
C23_SecondActionWhileOutstanding ==
  (cli.variant \in {"bootstrap", "fetch"} /\ SecondActionPossible(cli))
    => ENABLED SendsRequest

\* C23, amended to the fetch client: a second action can be issued while a
\* request is outstanding; a request stays outstanding until its own reply
\* arrives (nothing cancels or merges it), and each successful reply is
\* applied to the document when it arrives, at the selection of that moment.
C23_FetchRequestsOverlap ==
  /\ []((cli.variant = "fetch" /\ SecondActionPossible(cli))
          => ENABLED SendsRequest)
  /\ [][cli.variant = "fetch" =>
          \A k \in CallSlots :
            /\ (cli.calls[k].pc = "sent" /\ cli'.calls[k] # cli.calls[k])
                 => \E reply \in Replies : FetchSettle(k, reply)
            /\ \A reply \in Replies :
                 SettledResult(k, reply) =>
                   /\ cli'.doc = SubSeq(cli.doc, 1, cli.from) \o reply.result.s
                                    \o SubSeq(cli.doc, cli.to + 1, Len(cli.doc))
                   /\ \A j \in CallSlots \ {k} : cli'.calls[j] = cli.calls[j]]_vars

C23_Witness ==
  /\ cli.variant = "fetch"
  /\ cli.calls[1] = DoneCall
  /\ cli.calls[2].pc = "sent" /\ cli.calls[2].text = <<"a">>
  /\ cli.doc = <<"R", " ">>

\* The request q as the only one the server ever received.
Alone(q) ==
  [Idle EXCEPT !.pc = "received", !.method = q.method, !.path = q.path,
               !.body = q.body]

\* What the server answers to q when it handles it alone, given the reply
\* the provider gave to q's own call.
AnswerAlone(q) ==
  CASE variant = "production" -> ProdHandle(NODE_ENV, Alone(q)).resp
    [] variant = "dummy"      -> DummyHandle(Alone(q)).resp
    [] q.upstream = "resolved" -> MinimalSuccess(q.reply)
    [] q.upstream \in {"rejected", "malformed"} -> MinimalFailure(q.err)
    [] OTHER -> MinimalHandle(Alone(q)).resp

ValidatorRejected(q) ==
  /\ q.resp.status = 400
  /\ q.resp.error = <<"Invalid request">>

\* C25: no request gets more than one response, and an answered request got
\* exactly one. After validateTextInput either its 400 was sent and the
\* handler did not run, or the handler ran; a handler that ran sent its
\* success response or its 500 response, one of the two.
C25_AtMostOneResponse ==
  \A r \in Slots :
    /\ reqs[r].sends <= 1
    /\ reqs[r].pc = "done" <=> reqs[r].sends = 1
    /\ reqs[r].validated => (ValidatorRejected(reqs[r]) <=> ~reqs[r].handled)
    /\ (reqs[r].handled /\ reqs[r].pc = "done") =>
         /\ reqs[r].resp.status \in {200, 500}
         /\ reqs[r].resp.status = 200 <=> "result" \in reqs[r].resp.fields
         /\ reqs[r].resp.status = 500 <=> "error" \in reqs[r].resp.fields

C25_Witness ==
  /\ variant = "production"
  /\ reqs[1].pc = "done" /\ reqs[1].validated /\ ~reqs[1].handled
  /\ reqs[1].resp.status = 400 /\ reqs[1].sends = 1
  /\ reqs[2].pc = "done" /\ reqs[2].validated /\ reqs[2].handled
  /\ reqs[2].resp.status = 200 /\ reqs[2].sends = 1

\* The requests of the client that wait for their reply.
Outstanding(c) == { k \in CallSlots : c.calls[k].pc = "sent" }

\* C26: in the Bootstrap client `loading` is true exactly while a request is
\* outstanding, whatever the outcome of earlier requests, and never more
\* than one request is outstanding.
C26_LoadingWhileOutstanding ==
  cli.variant = "bootstrap" =>
    /\ cli.loading <=> Outstanding(cli) # {}
    /\ Cardinality(Outstanding(cli)) <= 1

C26_Witness ==
  /\ cli.variant = "bootstrap"
  /\ cli.calls[1] = DoneCall /\ cli.console = "error"
  /\ cli.calls[2].pc = "sent" /\ cli.loading

\* The error displayed was raised by a failed request.
RequestErrorShown(c) ==
  /\ c.variant = "bootstrap"
  /\ c.error # Null
  /\ c.error # Str(<<"Please select text to transform">>)

\* C27: in the Bootstrap client the error of a failed request goes away only
\* when the user dismisses it or a later action starts; no timer clears it.
C27_RequestErrorStays ==
  [][(RequestErrorShown(cli) /\ cli'.error # cli.error) =>
       \/ Dismiss("error")
       \/ \E a \in {"shorter", "longer"} : BootstrapHandleAIAction(a)]_vars

\* The time left until the first force-shutdown timer fires.
EarliestDeadline == CHOOSE d \in timers : \A e \in timers : d <= e

\* C28: during the grace window the time left until the forced exit is at
\* most 30 s and only the passage of time changes it: a further signal
\* neither extends it nor ends the process, and time does not pass beyond it.
C28_SignalsKeepDeadline ==
  /\ [](phase = "closing" =>
          /\ timers # {}
          /\ EarliestDeadline >= 0 /\ EarliestDeadline <= GRACE_MS)
  /\ [][(phase = "closing" /\ \E sig \in {"SIGINT", "SIGTERM"} : Signal(sig)) =>
          /\ EarliestDeadline' = EarliestDeadline
          /\ phase' = "closing" /\ exitCode' = exitCode]_vars
  /\ [][(phase = "closing" /\ Tick) =>
          EarliestDeadline' = EarliestDeadline - TickMs]_vars

C28_Witness ==
  /\ phase = "closing"
  /\ timers = {0, TickMs}
  /\ \E r \in Slots : InFlight(reqs[r]) /\ reqs[r].atSignal

\* C29: on the production server every request that is sent a response
\* leaves exactly one access-log record, requests rejected by validation, by
\* the 404 handler or by the body parser included.
C29_OneAccessLogPerResponse ==
  variant = "production" =>
    \A r \in Slots : reqs[r].sends > 0 => reqs[r].logs = 1

\* What the client shows as the outcome of a transform.
Outcome(c) == <<c.doc, c.transformedText, c.success>>

====
